---- MODULE Spec2Model ----
(***************************************************************************)
(* Model of the resilient fetch-and-extract pipeline of the Kleinanzeigen  *)
(* API: get_inserate_details_httpx and get_inserate_details_optimized      *)
(* (src/scrapers/inserat.py) and the get_inserat endpoint                  *)
(* (src/routers/inserat.py).                                               *)
(*                                                                         *)
(* Each logical request r owns its warning manager, tracker, client and    *)
(* loop state; the variables are functions over Requests.  Time is counted *)
(* in milliseconds, so round(x, 3) of a time in seconds changes nothing.   *)
(* utils/error_handling.py and utils/performance.py are not among the      *)
(* sources; the classifier, the warning manager and the tracker follow the *)
(* written specification (sections 4.2 - 4.4).                             *)
(***************************************************************************)
EXTENDS Integers, Sequences, FiniteSets, TLC

\* ---------------------------------------------------------------- bounds
NumRequests == 2
MaxRetries == 2
MaxFetchTime == 2

\* default of the retry_count parameter
DefaultRetryCount == 2

Requests == 1..NumRequests

\* Listing ids handed to the endpoint or the pipeline, as sequences of code
\* points: "", " ", "\t", "\u00a0", "7", " 7", "7\t" and "\ud83d".
Ids == { <<>>, <<32>>, <<9>>, <<160>>, <<55>>, <<32, 55>>, <<55, 9>>, <<55357>> }

\* Status codes for which raise_for_status() raises: every status that is not
\* 2xx, a redirect (which client.get does not follow) included.
StatusCodes == {301, 404, 429, 500, 503}

\* Jitter drawn for a backoff, in milliseconds of [0, 1000).
Jitters == {0, 999}

\* What the page holds at #viewad-ad-id-box > ul > li:nth-child(2).
AdIdShapes == {"absent", "empty", "present"}

\* What one await of get_inserate_details_httpx can meet before it returns.
FetchOutcomes ==
    [kind : {"document"}, adid : AdIdShapes, status : {200}]
      \cup [kind : {"http_status"}, adid : {"absent"}, status : StatusCodes]
      \cup [kind : {"timeout", "network", "parsing", "other"},
            adid : {"absent"}, status : {0}]

VARIABLES
    pc,                    \* position of each request
    caller,                \* "none" | "direct" | "router"
    listing_id,            \* the id the pipeline was called with
    retry_count,           \* the retry_count argument
    attempt,               \* loop variable of the for loop
    attempts,              \* number of calls of get_inserate_details_httpx
    clock,                 \* time.time() relative to the start of the request
    start_time,            \* start_time of the attempt in flight
    request_start,         \* tracker.start_request()
    warnings,              \* WarningManager: the ordered warnings
    metrics,               \* PerformanceTracker: the PageMetrics records
    last_structured_error, \* last_structured_error
    client,                \* "none" | "open" | "closed"
    opened,                \* number of httpx.AsyncClient() the call has made
    path_id,               \* the id path parameter get_inserat was called with
    pending,               \* what the call returns or raises once the client
                           \* block is left
    result,                \* how get_inserate_details_optimized ended
    outcomes,              \* what the attempts of the request met, in order
    endpoint               \* how get_inserat ended

vars == << pc, caller, listing_id, retry_count, attempt, attempts, clock,
           start_time, request_start, warnings, metrics,
           last_structured_error, client, opened, path_id, pending, result,
           outcomes, endpoint >>

\* Python's None, where it is compared with a record
None == [none |-> TRUE]

NoError == None
NoResult == [kind |-> "none"]

\* ------------------------------------------------------- string helpers
\* The code points str.strip() removes: those for which str.isspace() holds.
Whitespace ==
    (9..13) \cup (28..32) \cup {133, 160, 5760} \cup (8192..8202)
      \cup {8232, 8233, 8239, 8287, 12288}

RECURSIVE LStrip(_)
LStrip(s) ==
    IF s # <<>> /\ Head(s) \in Whitespace THEN LStrip(Tail(s)) ELSE s

RECURSIVE RStrip(_)
RStrip(s) ==
    IF s # <<>> /\ s[Len(s)] \in Whitespace
    THEN RStrip(SubSeq(s, 1, Len(s) - 1))
    ELSE s

\* str.strip()
Strip(s) == RStrip(LStrip(s))

\* f"https://www.kleinanzeigen.de/s-anzeige/{listing_id}"
Url(id) == << "https://www.kleinanzeigen.de/s-anzeige/" >> \o id

\* The number of characters of the fixed prefix of the url.
UrlPrefixLength == 39

\* len(url)
UrlLength(url) == UrlPrefixLength + Len(url) - 1

\* The longest url httpx.URL accepts (MAX_URL_LENGTH).
MaxUrlLength == 65536

\* The code points httpx refuses in a url: the ASCII characters that are not
\* printable.
ControlCharacters == (0..31) \cup {127}

\* The surrogate code points: a str that holds one cannot be encoded as UTF-8.
Surrogates == 55296..57343

\* client.get(url) builds httpx.URL(url) before a request is sent and before
\* anything is awaited: it raises httpx.InvalidURL for a url that is too long
\* or holds a control character, and UnicodeEncodeError for one that holds a
\* surrogate.  The first element of the url is the fixed prefix.
ValidUrl(url) ==
    /\ UrlLength(url) <= MaxUrlLength
    /\ \A i \in 2..Len(url) : url[i] \notin ControlCharacters \cup Surrogates

\* What an attempt meets when the client refuses the url with httpx.InvalidURL.
InvalidURL == [kind |-> "invalid_url", adid |-> "absent", status |-> 0]

\* What an attempt meets when the url cannot be encoded.
UnicodeEncodeError == [kind |-> "unicode_encode", adid |-> "absent", status |-> 0]

\* What client.get raises for a url it refuses: the length and the control
\* characters are tested first, the encoding fails after them.
UrlRefusal(url) ==
    IF \/ UrlLength(url) > MaxUrlLength
       \/ \E i \in 2..Len(url) : url[i] \in ControlCharacters
    THEN InvalidURL
    ELSE UnicodeEncodeError

\* fastapi.HTTPException(status_code=..., detail=...); detail is a record, text
\* its message when the detail is a string.
HTTPException(status_code, detail) ==
    [type |-> "HTTPException", status_code |-> status_code, detail |-> detail]

\* ------------------------------------------- get_inserate_details_httpx
\* lib.get_element_content(soup, selector, default="[ERROR] Ad ID not found"):
\* the default when no element matches, else the stripped text of the element.
AdId(shape) ==
    CASE shape = "absent" -> "[ERROR] Ad ID not found"
      [] shape = "empty" -> ""
      [] OTHER -> "7"

\* The record returned when the fetch and the extraction go through.
Details(outcome) == [id |-> AdId(outcome.adid), status |-> "active"]

\* An except clause that reports every failure as 500
HttpxStatusCodeAlways500(outcome) == 500

\* status_code of the HTTPException the two except clauses raise: the status of
\* the response for an httpx.HTTPStatusError, 500 for any other exception.
HttpxStatusCode(outcome) ==
    IF outcome.kind = "http_status" THEN outcome.status ELSE 500

\* get_inserate_details_httpx: the details, or the HTTPException it raises.
\* origin keeps what was raised inside the try block.
GetInserateDetailsHttpx(outcome) ==
    IF outcome.kind = "document"
    THEN [raised |-> FALSE, details |-> Details(outcome)]
    ELSE [raised |-> TRUE,
          exc |-> HTTPException(HttpxStatusCode(outcome),
                                [text |-> outcome.kind])]

\* ------------------------------------------------------ Error Classifier
\* Fixed recovery suggestions of a category.
RecoverySuggestions(category) ==
    CASE category = "TIMEOUT" -> << "increase timeout", "check target server load" >>
      [] OTHER -> << "suggestions", category >>

\* Category, severity and retryability of a raised failure, rules 1 to 5 in
\* priority order.  An exception that carries a status (>= 400) is rule 1.
Classify(exc) ==
    LET category ==
            CASE exc.status_code >= 400 -> "HTTP_STATUS"
              [] exc.type = "TimeoutException" -> "TIMEOUT"
              [] exc.type = "NetworkError" -> "NETWORK"
              [] exc.type = "ParsingError" -> "PARSING"
              [] OTHER -> "UNKNOWN"
        severity ==
            CASE category = "HTTP_STATUS" ->
                    IF exc.status_code >= 500 THEN "HIGH" ELSE "MEDIUM"
              [] category \in {"TIMEOUT", "NETWORK"} -> "MEDIUM"
              [] OTHER -> "HIGH"
        retryable ==
            CASE category = "HTTP_STATUS" ->
                    exc.status_code >= 500 \/ exc.status_code = 429
              [] category \in {"TIMEOUT", "NETWORK"} -> TRUE
              [] OTHER -> FALSE
    IN  [category |-> category,
         severity |-> severity,
         message |-> << category, exc.status_code >>,
         recovery_suggestions |-> RecoverySuggestions(category),
         retryable |-> retryable]

\* error_ctx.handle_exception(e, "detail_fetch_httpx") with
\* error_ctx.context.retry_attempt = retry_attempt
HandleException(exc, retry_attempt) ==
    Classify(exc) @@ [retry_attempt |-> retry_attempt]

\* structured_error.should_retry(max_retries)
ShouldRetry(structured_error, max_retries) ==
    structured_error.retryable /\ structured_error.retry_attempt < max_retries

\* ----------------------------------------------------- Warning Aggregator
\* warning_manager.add_warning(message, severity, context, affected_items, ...)
AddWarning(ws, message, severity, id) ==
    Append(ws, [message |-> message, severity |-> severity,
                affected_items |-> << id >>])

\* warning_manager.get_user_friendly_messages()
GetUserFriendlyMessages(ws) == [i \in 1..Len(ws) |-> ws[i].message]

\* warning_manager.get_warning_summary(): counts grouped by severity
GetWarningSummary(ws) ==
    [sev \in {"LOW", "MEDIUM", "HIGH"} |->
        Cardinality({i \in 1..Len(ws) : ws[i].severity = sev})]

\* f"Incomplete data extracted for listing {listing_id}"
IncompleteMessage(id) ==
    [text |-> "Incomplete data extracted for listing", listing_id |-> id,
     category |-> "", attempt |-> 0, of |-> 0]

\* f"Retrying listing {listing_id} after {category} error (attempt {a + 1}/{n + 1})"
RetryMessage(id, category, a, n) ==
    [text |-> "Retrying listing", listing_id |-> id,
     category |-> category, attempt |-> a + 1, of |-> n + 1]

\* -------------------------------------------------------- Metrics Tracker
\* PageMetrics(page_number=1, url=..., start_time=..., end_time=..., ...)
PageMetrics(url, st, et, success, a, error_category, results_count, wc) ==
    [page_number |-> 1, url |-> url, start_time |-> st, end_time |-> et,
     success |-> success, retry_count |-> a,
     error_category |-> error_category, results_count |-> results_count,
     warning_count |-> wc]

RECURSIVE SumTimes(_)
SumTimes(ms) ==
    IF ms = <<>> THEN 0
    ELSE (Head(ms).end_time - Head(ms).start_time) + SumTimes(Tail(ms))

\* Success rate on the 0..100 scale in hundredths (3333 is 33.33): successful
\* attempts over total attempts, 100 when nothing was recorded.
SuccessRate(ms) ==
    IF ms = <<>> THEN 10000
    ELSE (Cardinality({i \in 1..Len(ms) : ms[i].success}) * 10000) \div Len(ms)

\* tracker.get_request_metrics().to_dict(), recomputed on every call
GetRequestMetrics(ms, started, now) ==
    [total_time |-> now - started,
     success_rate |-> SuccessRate(ms),
     average_page_time |-> IF ms = <<>> THEN 0 ELSE SumTimes(ms) \div Len(ms),
     total_attempts |-> Len(ms),
     total_warnings |-> IF ms = <<>> THEN 0 ELSE ms[Len(ms)].warning_count]

\* --------------------------------------- get_inserate_details_optimized
\* A loop that runs one iteration too few: range(retry_count)
LoopRangeShort(rc) == 0..(rc - 1)

\* range(retry_count + 1)
LoopRange(rc) == 0..rc

\* A wait time taken from the module random: 2^attempt seconds and the jitter
WaitTimeFromRandom(a, jitter) ==
    [raised |-> FALSE, value |-> (2 ^ a) * 1000 + jitter]

\* (2**attempt) + asyncio.trandom.uniform(0, 1): the module asyncio has no
\* attribute trandom, so the evaluation raises AttributeError for every attempt
\* and every jitter.
WaitTime(a, jitter) ==
    [raised |-> TRUE,
     exc |-> [type |-> "AttributeError", status_code |-> 0,
              detail |-> [text |-> "module 'asyncio' has no attribute 'trandom'"]]]

\* The response of a successful attempt; the warning keys only with warnings.
SuccessResponse(details, rm, ws) ==
    LET response == [success |-> TRUE, data |-> details,
                     time_taken |-> rm.total_time,
                     performance_metrics |-> rm]
    IN  IF ws # <<>>
        THEN response @@ [warnings |-> GetUserFriendlyMessages(ws),
                          detailed_warnings |-> ws,
                          warning_summary |-> GetWarningSummary(ws)]
        ELSE response

\* A failure response that reports the severity where the category belongs
FailureResponseMixedUp(se, rm, ws) ==
    [success |-> FALSE, error |-> se.message, error_category |-> se.severity,
     error_severity |-> se.severity,
     recovery_suggestions |-> se.recovery_suggestions, data |-> None,
     time_taken |-> rm.total_time, performance_metrics |-> rm]

\* The response of the attempt that ends the loop with a failure.
FailureResponse(se, rm, ws) ==
    LET response == [success |-> FALSE,
                     error |-> se.message,
                     error_category |-> se.category,
                     error_severity |-> se.severity,
                     recovery_suggestions |-> se.recovery_suggestions,
                     data |-> None,
                     time_taken |-> rm.total_time,
                     performance_metrics |-> rm]
    IN  IF ws # <<>>
        THEN response @@ [warnings |-> GetUserFriendlyMessages(ws),
                          detailed_warnings |-> ws]
        ELSE response

\* The raise after the loop: the last structured error if there is one, else
\* "Unexpected error in retry loop".
Fallback(lse) ==
    IF lse # NoError
    THEN HTTPException(500, [error |-> lse.message,
                             category |-> lse.category,
                             severity |-> lse.severity,
                             recovery_suggestions |-> lse.recovery_suggestions])
    ELSE HTTPException(500, [text |-> "Unexpected error in retry loop"])

\* A retry decision that forgets that the attempt was the last permitted one
RetryDecisionPastLast(a, rc, structured_error) ==
    a <= rc /\ structured_error.retryable

\* attempt < retry_count and structured_error.should_retry(retry_count)
RetryDecision(a, rc, structured_error) ==
    a < rc /\ ShouldRetry(structured_error, rc)

\* A warning manager kept in one place for the whole process: a new request
\* finds in it what the other requests have raised.
SharedWarningManager(all, r) ==
    all[CHOOSE q \in DOMAIN all : \A p \in DOMAIN all : Len(all[q]) >= Len(all[p])]

\* warning_manager = WarningManager(): a new, empty manager for every call
NewWarningManager(all, r) == <<>>

\* A client that is made without the async with block and never closed
LeakClient(c) == c

\* Leaving the async with httpx.AsyncClient() block, by return or by exception
CloseClient(c) == "closed"

\* asyncio.CancelledError, thrown into the call at the await of the fetch; it
\* is a BaseException and no except clause of the call or the endpoint takes it.
CancelledError ==
    [type |-> "CancelledError", status_code |-> 0, detail |-> [text |-> ""]]

Returned(response) == [kind |-> "response", response |-> response]
Raised(exc) == [kind |-> "exception", exc |-> exc]

\* The local state of one call of get_inserate_details_optimized, as a record.
CallState(r) ==
    [pc |-> pc[r], attempt |-> attempt[r], attempts |-> attempts[r],
     clock |-> clock[r], start_time |-> start_time[r],
     warnings |-> warnings[r], metrics |-> metrics[r],
     last_structured_error |-> last_structured_error[r],
     client |-> client[r], pending |-> pending[r], outcomes |-> outcomes[r]]

\* The call of request r goes on from the local state c.
SetCallState(r, c) ==
    /\ pc' = [pc EXCEPT ![r] = c.pc]
    /\ attempt' = [attempt EXCEPT ![r] = c.attempt]
    /\ attempts' = [attempts EXCEPT ![r] = c.attempts]
    /\ clock' = [clock EXCEPT ![r] = c.clock]
    /\ start_time' = [start_time EXCEPT ![r] = c.start_time]
    /\ warnings' = [warnings EXCEPT ![r] = c.warnings]
    /\ metrics' = [metrics EXCEPT ![r] = c.metrics]
    /\ last_structured_error' =
          [last_structured_error EXCEPT ![r] = c.last_structured_error]
    /\ client' = [client EXCEPT ![r] = c.client]
    /\ pending' = [pending EXCEPT ![r] = c.pending]
    /\ outcomes' = [outcomes EXCEPT ![r] = c.outcomes]

RECURSIVE ForLoop(_, _, _, _, _, _)
RECURSIVE ExceptBlock(_, _, _, _, _, _, _)

\* The for statement takes iteration a of the call with listing id, retry_count
\* rc and request start rs, in local state c.  The attempt starts; with a url
\* the client accepts it awaits the fetch, with one the client refuses
\* client.get raises at once and the except block runs before any await.  When
\* the range is exhausted the client block is left and the fallback is to raise.
ForLoop(c, id, rc, rs, a, jitter) ==
    IF a \in LoopRange(rc)
    THEN LET started == [c EXCEPT !.attempt = a,
                                  !.attempts = @ + 1,
                                  !.start_time = c.clock,
                                  !.client = "open"]
         IN  IF ValidUrl(Url(id))
             THEN [started EXCEPT !.pc = "fetching"]
             ELSE ExceptBlock(started, id, rc, rs, UrlRefusal(Url(id)), 0, jitter)
    ELSE [c EXCEPT !.pc = "closing",
                   !.client = CloseClient("open"),
                   !.pending = Raised(Fallback(c.last_structured_error))]

\* get_inserate_details_httpx raises, d after the attempt started: lines 140 to
\* 190.  A retry adds its warning and evaluates the wait time; were a wait time
\* produced, the call would sleep for it and continue with the next iteration.
\* An exception raised in the handler leaves the loop, the client block (which
\* closes the client, awaiting the close of its transport) and the
\* error_handling_context block, which lets it pass, and so the call.
ExceptBlock(c, id, rc, rs, outcome, d, jitter) ==
    LET now == c.clock + d
        e == GetInserateDetailsHttpx(outcome).exc
        structured_error == HandleException(e, c.attempt)
        retry == RetryDecision(c.attempt, rc, structured_error)
        retry_ws == AddWarning(c.warnings,
                        RetryMessage(id, structured_error.category,
                                     c.attempt, rc),
                        "MEDIUM", id)
        wait_time == WaitTime(c.attempt, jitter)
        ms == Append(c.metrics,
                     PageMetrics(Url(id), c.start_time, now, FALSE,
                                 c.attempt, structured_error.category, 0,
                                 Len(c.warnings)))
        rm == GetRequestMetrics(ms, rs, now)
        failed == [c EXCEPT !.last_structured_error = structured_error,
                            !.outcomes = Append(@, outcome),
                            !.clock = now]
    IN  IF retry
        THEN IF wait_time.raised
             THEN [failed EXCEPT !.warnings = retry_ws,
                                 !.pc = "closing",
                                 !.client = CloseClient(@),
                                 !.pending = Raised(wait_time.exc)]
             ELSE ForLoop([failed EXCEPT !.warnings = retry_ws,
                                         !.clock = now + wait_time.value],
                          id, rc, rs, c.attempt + 1, jitter)
        ELSE [failed EXCEPT !.metrics = ms,
                            !.pc = "closing",
                            !.client = CloseClient(@),
                            !.pending = Returned(FailureResponse(structured_error,
                                                                 rm, c.warnings))]

\* The call of get_inserate_details_optimized(id, rc) up to its first await:
\* logger, warning manager and tracker are created, the request is started, the
\* client is opened and the loop is entered.
StartPipeline(r, id, rc, who, jitter) ==
    /\ caller' = [caller EXCEPT ![r] = who]
    /\ listing_id' = [listing_id EXCEPT ![r] = id]
    /\ retry_count' = [retry_count EXCEPT ![r] = rc]
    /\ request_start' = [request_start EXCEPT ![r] = clock[r]]
    /\ opened' = [opened EXCEPT ![r] = @ + 1]
    /\ SetCallState(r,
          ForLoop([CallState(r) EXCEPT
                      !.warnings = NewWarningManager(warnings, r),
                      !.metrics = <<>>,
                      !.last_structured_error = NoError,
                      !.outcomes = <<>>],
                  id, rc, clock[r], 0, jitter))
    /\ UNCHANGED result

\* A caller other than the endpoint calls the pipeline.
CallOptimized(r, id, rc, jitter) ==
    /\ pc[r] = "idle"
    /\ StartPipeline(r, id, rc, "direct", jitter)
    /\ UNCHANGED << endpoint, path_id >>

\* get_inserate_details_httpx returns the details: lines 101 to 138.  The return
\* leaves the client block, which marks the client closed and awaits the close
\* of its transport; the call ends when that await is over (ClientClosed).
AttemptSucceeds(r, outcome, d) ==
    /\ pc[r] = "fetching"
    /\ outcome.kind = "document"
    /\ LET now == clock[r] + d
           details == GetInserateDetailsHttpx(outcome).details
           ws == IF details.id = ""
                 THEN AddWarning(warnings[r], IncompleteMessage(listing_id[r]),
                                 "MEDIUM", listing_id[r])
                 ELSE warnings[r]
           ms == Append(metrics[r],
                        PageMetrics(Url(listing_id[r]), start_time[r], now, TRUE,
                                    attempt[r], "None", 1, Len(ws)))
           rm == GetRequestMetrics(ms, request_start[r], now)
       IN  /\ clock' = [clock EXCEPT ![r] = now]
           /\ warnings' = [warnings EXCEPT ![r] = ws]
           /\ metrics' = [metrics EXCEPT ![r] = ms]
           /\ pending' = [pending EXCEPT ![r] = Returned(SuccessResponse(details, rm, ws))]
    /\ pc' = [pc EXCEPT ![r] = "closing"]
    /\ client' = [client EXCEPT ![r] = CloseClient(@)]
    /\ outcomes' = [outcomes EXCEPT ![r] = Append(@, outcome)]
    /\ UNCHANGED << caller, listing_id, retry_count, attempt, attempts,
                    start_time, request_start, last_structured_error, opened,
                    path_id, result, endpoint >>

\* The fetch an attempt awaits ends with get_inserate_details_httpx raising, d
\* after the attempt started.
AttemptFails(r, outcome, d, jitter) ==
    /\ pc[r] = "fetching"
    /\ outcome.kind # "document"
    /\ SetCallState(r, ExceptBlock(CallState(r), listing_id[r], retry_count[r],
                                   request_start[r], outcome, d, jitter))
    /\ UNCHANGED << caller, listing_id, retry_count, request_start, opened,
                    path_id, result, endpoint >>

\* The caller cancels the call at one of its awaits.  While the fetch of an
\* attempt is awaited, CancelledError is raised at the await of line 99 (through
\* the await of line 19), passes except Exception at lines 73 and 140 and leaves
\* the client block, which closes the client; nothing is recorded for the
\* attempt.  While the close of the client is awaited, CancelledError replaces
\* what the call was about to return or raise and the call ends with it.
Cancel(r) ==
    /\ pc[r] \in {"fetching", "closing"}
    /\ IF pc[r] = "fetching"
       THEN /\ pc' = [pc EXCEPT ![r] = "closing"]
            /\ client' = [client EXCEPT ![r] = CloseClient(@)]
            /\ pending' = [pending EXCEPT ![r] = Raised(CancelledError)]
            /\ result' = result
       ELSE /\ pc' = [pc EXCEPT ![r] = "returned"]
            /\ result' = [result EXCEPT ![r] = Raised(CancelledError)]
            /\ UNCHANGED << client, pending >>
    /\ UNCHANGED << caller, listing_id, retry_count, attempt, attempts, clock,
                    start_time, request_start, warnings, metrics,
                    last_structured_error, opened, path_id, outcomes, endpoint >>

\* The await of the close of the client is over: the client block is left and
\* the call returns or raises what was pending.
ClientClosed(r) ==
    /\ pc[r] = "closing"
    /\ pc' = [pc EXCEPT ![r] = "returned"]
    /\ result' = [result EXCEPT ![r] = pending[r]]
    /\ UNCHANGED << caller, listing_id, retry_count, attempt, attempts, clock,
                    start_time, request_start, warnings, metrics,
                    last_structured_error, client, opened, path_id, pending,
                    outcomes, endpoint >>

\* ------------------------------------------------------------ get_inserat
\* A check that forgets the strip: not id
InvalidIdEmptyOnly(id) == id = <<>>

\* not id or not id.strip()
InvalidId(id) == id = <<>> \/ Strip(id) = <<>>

\* An endpoint that hands the structured-error fields of the response on
FailedToFetchStructured(response) ==
    HTTPException(500, [error |-> response.error,
                        category |-> response.error_category,
                        severity |-> response.error_severity,
                        recovery_suggestions |-> response.recovery_suggestions])

\* The HTTPException raised for a pipeline response without success.
FailedToFetch(response) ==
    HTTPException(500, [text |-> "Failed to fetch listing details"])

\* response.get("success", False)
GetSuccess(response) ==
    IF "success" \in DOMAIN response THEN response.success ELSE FALSE

\* A cleaned response that loses the extracted record
CleanResponseWithoutData(response) ==
    [success |-> response.success, time_taken |-> response.time_taken,
     data |-> None]

\* The cleaned response: success, time_taken, data and the two metrics kept,
\* metrics.get("success_rate", 100) (in hundredths) and
\* metrics.get("average_page_time", response["time_taken"]).
CleanResponse(response) ==
    LET clean == [success |-> response.success,
                  time_taken |-> response.time_taken,
                  data |-> response.data]
        m == response.performance_metrics
    IN  IF "performance_metrics" \in DOMAIN response
        THEN clean @@
             [performance_metrics |->
                [success_rate |-> IF "success_rate" \in DOMAIN m
                                  THEN m.success_rate
                                  ELSE 10000,
                 time_taken |-> IF "average_page_time" \in DOMAIN m
                                THEN m.average_page_time
                                ELSE response.time_taken]]
        ELSE clean

\* The endpoint is called: an invalid id is refused with 400, any other id is
\* handed to the pipeline with the default retry_count.
GetInserat(r, id, jitter) ==
    /\ pc[r] = "idle"
    /\ IF InvalidId(id)
       THEN /\ pc' = [pc EXCEPT ![r] = "responded"]
            /\ caller' = [caller EXCEPT ![r] = "router"]
            /\ endpoint' = [endpoint EXCEPT ![r] =
                               Raised(HTTPException(400, [text |-> "Invalid listing ID"]))]
            /\ UNCHANGED << listing_id, retry_count, attempt, attempts, clock,
                            start_time, request_start, warnings, metrics,
                            last_structured_error, client, opened, pending,
                            result, outcomes >>
       ELSE /\ StartPipeline(r, id, DefaultRetryCount, "router", jitter)
            /\ UNCHANGED endpoint
    /\ path_id' = [path_id EXCEPT ![r] = id]

\* The pipeline has ended and the endpoint goes on: lines 24 to 51.
GetInseratResume(r) ==
    /\ pc[r] = "returned"
    /\ caller[r] = "router"
    /\ pc' = [pc EXCEPT ![r] = "responded"]
    /\ endpoint' = [endpoint EXCEPT ![r] =
          IF result[r].kind = "exception"
          THEN IF result[r].exc.type \in {"HTTPException", "CancelledError"}
               THEN Raised(result[r].exc)
               ELSE Raised(HTTPException(500, [text |-> "Internal server error"]))
          ELSE IF ~ GetSuccess(result[r].response)
               THEN Raised(FailedToFetch(result[r].response))
               ELSE Returned(CleanResponse(result[r].response))]
    /\ UNCHANGED << caller, listing_id, retry_count, attempt, attempts, clock,
                    start_time, request_start, warnings, metrics,
                    last_structured_error, client, opened, path_id, pending,
                    result, outcomes >>

\* ------------------------------------------------------------ the system
\* The state before the requests in S are made; the others are never made.
InitFor(S) ==
    /\ pc = [r \in Requests |-> IF r \in S THEN "idle" ELSE "unused"]
    /\ caller = [r \in Requests |-> "none"]
    /\ listing_id = [r \in Requests |-> <<>>]
    /\ retry_count = [r \in Requests |-> 0]
    /\ attempt = [r \in Requests |-> 0]
    /\ attempts = [r \in Requests |-> 0]
    /\ clock = [r \in Requests |-> 0]
    /\ start_time = [r \in Requests |-> 0]
    /\ request_start = [r \in Requests |-> 0]
    /\ warnings = [r \in Requests |-> <<>>]
    /\ metrics = [r \in Requests |-> <<>>]
    /\ last_structured_error = [r \in Requests |-> NoError]
    /\ client = [r \in Requests |-> "none"]
    /\ opened = [r \in Requests |-> 0]
    /\ path_id = [r \in Requests |-> <<>>]
    /\ pending = [r \in Requests |-> NoResult]
    /\ result = [r \in Requests |-> NoResult]
    /\ outcomes = [r \in Requests |-> <<>>]
    /\ endpoint = [r \in Requests |-> NoResult]

Init == InitFor({1})

Next ==
    \E r \in Requests :
        \/ \E id \in Ids, rc \in 0..MaxRetries, j \in Jitters :
              CallOptimized(r, id, rc, j)
        \/ \E id \in Ids, j \in Jitters : GetInserat(r, id, j)
        \/ \E o \in FetchOutcomes, d \in 1..MaxFetchTime : AttemptSucceeds(r, o, d)
        \/ \E o \in FetchOutcomes, d \in 1..MaxFetchTime, j \in Jitters :
               AttemptFails(r, o, d, j)
        \/ Cancel(r)
        \/ ClientClosed(r)
        \/ GetInseratResume(r)

Spec == Init /\ [][Next]_vars

\* Several requests at once, their steps interleaved at the awaits.  The ids
\* are two different valid ones and a tab, which the endpoint refuses as blank
\* and the client refuses in a url; the pipeline is called with the default
\* retry_count, and a fetch takes one unit of time.
InitConcurrent == InitFor(Requests)

\* A page with an id, a page with an empty id, a 404 and a 503.
ConcurrentOutcomes ==
    { o \in FetchOutcomes :
        \/ o.kind = "document" /\ o.adid \in {"present", "empty"}
        \/ o.kind = "http_status" /\ o.status \in {404, 503} }

ConcurrentIds == { <<9>>, <<55>>, <<32, 55>> }

NextConcurrent ==
    \E r \in Requests :
        \/ \E id \in ConcurrentIds : CallOptimized(r, id, DefaultRetryCount, 0)
        \/ \E id \in ConcurrentIds : GetInserat(r, id, 0)
        \/ \E o \in ConcurrentOutcomes : AttemptSucceeds(r, o, 1)
        \/ \E o \in ConcurrentOutcomes : AttemptFails(r, o, 1, 0)
        \/ Cancel(r)
        \/ ClientClosed(r)
        \/ GetInseratResume(r)

SpecConcurrent == InitConcurrent /\ [][NextConcurrent]_vars

\* ---------------------------------------------------------- properties
\* get_inserate_details_optimized has ended for request r.
PipelineEnded(r) == result[r].kind # "none"

\* The call of request r was cancelled: it ended with CancelledError.
Cancelled(r) == result[r] = Raised(CancelledError)

\* The call of request r was cancelled while the fetch of an attempt was awaited.
CancelledInFlight(r) == pending[r] = Raised(CancelledError)

IsSuccessResponse(r) ==
    result[r].kind = "response" /\ result[r].response.success

IsFailureResponse(r) ==
    result[r].kind = "response" /\ ~ result[r].response.success

\* The k-th attempt of request r met an HTTP status error with this status.
MetStatus(r, k, status) ==
    /\ Len(outcomes[r]) >= k
    /\ outcomes[r][k].kind = "http_status"
    /\ outcomes[r][k].status = status

RECURSIVE Pow2(_)
Pow2(k) == IF k = 0 THEN 1 ELSE 2 * Pow2(k - 1)

\* C1: one call of get_inserate_details_optimized with retry_count >= 0 makes at
\* most retry_count + 1 calls of get_inserate_details_httpx, and a call that has
\* ended has made at least one.
C1_AttemptsBounded ==
    \A r \in Requests :
        /\ attempts[r] <= retry_count[r] + 1
        /\ PipelineEnded(r) => attempts[r] >= 1

\* A call with retry_count = 0 has ended after its one permitted attempt, and
\* one with a larger retry_count after fewer attempts than permitted.
C1_Witness ==
    \E r \in Requests :
        /\ PipelineEnded(r)
        /\ retry_count[r] = 0
        /\ attempts[r] = retry_count[r] + 1
        /\ Len(outcomes[r]) = 1

\* C2: a failure of an attempt never leaves get_inserate_details_optimized as an
\* exception: a call that has ended, and was not cancelled, has returned a
\* response, and a failure response carries error, error_category,
\* error_severity and recovery_suggestions.
C2_NoExceptionEscapes ==
    \A r \in Requests :
        (PipelineEnded(r) /\ ~ Cancelled(r)) =>
            /\ result[r].kind = "response"
            /\ ~ result[r].response.success =>
                   {"error", "error_category", "error_severity",
                    "recovery_suggestions"} \subseteq DOMAIN result[r].response

\* C3: scenario D.  A call with retry_count = 2 whose attempts meet 503, 503 and
\* then a valid document, and which is not cancelled, does not end before the
\* third attempt, and ends with
\* success = true, a success rate of 33.33 over 3 recorded attempts and exactly
\* two MEDIUM retry warnings in the response.
ScenarioD ==
    << [kind |-> "http_status", adid |-> "absent", status |-> 503],
       [kind |-> "http_status", adid |-> "absent", status |-> 503],
       [kind |-> "document", adid |-> "present", status |-> 200] >>

C3_ScenarioD ==
    \A r \in Requests :
        ( /\ PipelineEnded(r)
          /\ ~ Cancelled(r)
          /\ retry_count[r] = 2
          /\ outcomes[r] # <<>>
          /\ outcomes[r] = SubSeq(ScenarioD, 1, Len(outcomes[r])) )
        => /\ outcomes[r] = ScenarioD
           /\ IsSuccessResponse(r)
           /\ Len(metrics[r]) = 3
           /\ result[r].response.performance_metrics.success_rate = 3333
           /\ "warnings" \in DOMAIN result[r].response
           /\ Len(result[r].response.detailed_warnings) = 2
           /\ \A i \in 1..2 :
                 /\ result[r].response.detailed_warnings[i].severity = "MEDIUM"
                 /\ result[r].response.detailed_warnings[i].message.text
                        = "Retrying listing"

\* C4: every attempt appends exactly one PageMetrics to the tracker of its
\* request: whenever no attempt is in flight and none was cancelled in flight,
\* and so whenever a response is returned, the tracker holds as many metrics as
\* attempts were made.
C4_OneMetricPerAttempt ==
    \A r \in Requests :
        (pc[r] # "fetching" /\ ~ CancelledInFlight(r)) =>
            Len(metrics[r]) = attempts[r]

\* An outcome whose failure the classifier is to treat as not retryable: a
\* failure inside parsing or extraction, or a 4xx status other than 429.
NonRetryableOrigin(o) ==
    \/ o.kind = "parsing"
    \/ o.kind = "http_status" /\ o.status >= 400 /\ o.status < 500 /\ o.status # 429

\* The first attempt of request r met a failure that is not to be retried: one
\* the classifier classifies as not retryable, or one inside parsing or
\* extraction.
FirstFailureNotRetryable(r) ==
    /\ outcomes[r] # <<>>
    /\ outcomes[r][1].kind # "document"
    /\ \/ ~ Classify(GetInserateDetailsHttpx(outcomes[r][1]).exc).retryable
       \/ NonRetryableOrigin(outcomes[r][1])

\* C5: after a failure the classifier classifies as not retryable, or a failure
\* inside parsing or extraction, the call has made exactly 1 attempt, whatever
\* retry_count is: no further attempt is ever made.
C5_NonRetryableOnce ==
    \A r \in Requests :
        FirstFailureNotRetryable(r) =>
            /\ attempts[r] = 1
            /\ Len(outcomes[r]) = 1

\* A call with retry_count = 2 whose extraction raised has ended after 1
\* attempt, left by the exception of the retry branch.
C5_Witness ==
    \E r \in Requests :
        /\ PipelineEnded(r)
        /\ retry_count[r] = 2
        /\ outcomes[r] # <<>>
        /\ outcomes[r][1].kind = "parsing"
        /\ attempts[r] = 1
        /\ result[r].kind = "exception"
        /\ result[r].exc.type = "AttributeError"

\* C6: scenario E.  With retry_count = 2 and HTTP 404 on attempt 0, exactly 1
\* attempt is made and the response of the call, which the scenario does not
\* cancel, has success = false and error_category = "HTTP_STATUS".
C6_ScenarioE ==
    \A r \in Requests :
        ( /\ PipelineEnded(r)
          /\ ~ Cancelled(r)
          /\ retry_count[r] = 2
          /\ MetStatus(r, 1, 404) )
        => /\ attempts[r] = 1
           /\ Len(outcomes[r]) = 1
           /\ IsFailureResponse(r)
           /\ result[r].response.error_category = "HTTP_STATUS"

\* A call with retry_count = 2 that met 404 has ended with a failure response.
C6_Witness ==
    \E r \in Requests :
        /\ PipelineEnded(r)
        /\ retry_count[r] = 2
        /\ MetStatus(r, 1, 404)
        /\ attempts[r] = 1
        /\ IsFailureResponse(r)

\* C7: after a retryable failure of attempt k < retry_count (the retry warning
\* for attempt k is raised), the wait time is a number w of milliseconds with
\* 2^k s <= w < 2^k s + 1 s, and attempt k + 1 is made after the sleep.
C7_BackoffInterval ==
    \A r \in Requests :
        \A i \in 1..Len(warnings[r]) :
            warnings[r][i].message.text = "Retrying listing" =>
                LET k == warnings[r][i].message.attempt - 1
                IN  /\ \A j \in Jitters :
                          /\ ~ WaitTime(k, j).raised
                          /\ WaitTime(k, j).value >= Pow2(k) * 1000
                          /\ WaitTime(k, j).value < (Pow2(k) + 1) * 1000
                    /\ attempts[r] >= k + 2

\* C8: a call that is not cancelled ends in one of three ways only: a success
\* response, a failure response, or the internal-error raise after the loop.
C8_ThreeWaysToEnd ==
    \A r \in Requests :
        (PipelineEnded(r) /\ ~ Cancelled(r)) =>
            \/ IsSuccessResponse(r)
            \/ IsFailureResponse(r)
            \/ result[r] = Raised(Fallback(last_structured_error[r]))
            \/ result[r] = Raised(Fallback(NoError))

\* C9: when a call has ended and was not cancelled, every warning raised during
\* its attempts is in its response, and the response carries the warning fields
\* exactly when a warning was raised.
C9_WarningsInFinalResponse ==
    \A r \in Requests :
        (PipelineEnded(r) /\ ~ Cancelled(r)) =>
            /\ warnings[r] # <<>> =>
                   /\ result[r].kind = "response"
                   /\ "warnings" \in DOMAIN result[r].response
                   /\ result[r].response.warnings = GetUserFriendlyMessages(warnings[r])
                   /\ result[r].response.detailed_warnings = warnings[r]
            /\ (warnings[r] = <<>> /\ result[r].kind = "response") =>
                   /\ "warnings" \notin DOMAIN result[r].response
                   /\ "detailed_warnings" \notin DOMAIN result[r].response

\* The endpoint of request r has ended after a pipeline response without success.
EndpointSawFailure(r) ==
    pc[r] = "responded" /\ caller[r] = "router" /\ IsFailureResponse(r)

\* C10 as stated: a pipeline response with success = false makes the endpoint
\* raise a 500 whose body carries the error message, category, severity and
\* recovery suggestions of that response.
C10_StructuredErrorBody ==
    \A r \in Requests :
        EndpointSawFailure(r) =>
            /\ endpoint[r].kind = "exception"
            /\ endpoint[r].exc.status_code = 500
            /\ endpoint[r].exc.detail =
                   [error |-> result[r].response.error,
                    category |-> result[r].response.error_category,
                    severity |-> result[r].response.error_severity,
                    recovery_suggestions |-> result[r].response.recovery_suggestions]

\* C10 amended: a pipeline response with success = false makes the endpoint
\* raise a 500 whose body is the fixed text "Failed to fetch listing details";
\* none of the structured-error fields of the response is in it.
C10_GenericErrorBody ==
    \A r \in Requests :
        EndpointSawFailure(r) =>
            /\ endpoint[r].kind = "exception"
            /\ endpoint[r].exc.type = "HTTPException"
            /\ endpoint[r].exc.status_code = 500
            /\ endpoint[r].exc.detail = [text |-> "Failed to fetch listing details"]

\* The endpoint has raised after a failure response of category HTTP_STATUS.
C10_Witness ==
    \E r \in Requests :
        /\ EndpointSawFailure(r)
        /\ result[r].response.error_category = "HTTP_STATUS"
        /\ endpoint[r].kind = "exception"
        /\ endpoint[r].exc.status_code = 500

\* The last thing the attempts of request r met.
LastOutcome(r) == outcomes[r][Len(outcomes[r])]

IsRetryWarning(w) == w.message.text = "Retrying listing"

IsIncompleteWarning(w) ==
    w.message.text = "Incomplete data extracted for listing"

\* C11: get_inserat never calls the pipeline with an empty or whitespace-only
\* id: the request ends with a 400, no call of get_inserate_details_optimized, no
\* client and no attempt.
C11_BlankIdRejected ==
    \A r \in Requests :
        (caller[r] = "router" /\ (path_id[r] = <<>> \/ Strip(path_id[r]) = <<>>)) =>
            /\ pc[r] = "responded"
            /\ endpoint[r] = Raised(HTTPException(400, [text |-> "Invalid listing ID"]))
            /\ result[r] = NoResult
            /\ attempts[r] = 0
            /\ opened[r] = 0

\* The endpoint has refused a whitespace-only id.
C11_Witness ==
    \E r \in Requests :
        /\ caller[r] = "router"
        /\ path_id[r] = << 9 >>
        /\ pc[r] = "responded"
        /\ endpoint[r].kind = "exception"
        /\ endpoint[r].exc.status_code = 400

\* C12: when the fetch succeeds and the page has no ad-id element (or an empty
\* one), the call raises the MEDIUM incomplete-data warning and, unless it is
\* cancelled, returns a success response for that attempt, without a retry.
C12_MissingIdWarns ==
    \A r \in Requests :
        ( /\ PipelineEnded(r)
          /\ ~ Cancelled(r)
          /\ outcomes[r] # <<>>
          /\ LastOutcome(r).kind = "document"
          /\ LastOutcome(r).adid \in {"absent", "empty"} )
        => /\ IsSuccessResponse(r)
           /\ attempts[r] = Len(outcomes[r])
           /\ \E i \in 1..Len(warnings[r]) :
                 /\ IsIncompleteWarning(warnings[r][i])
                 /\ warnings[r][i].severity = "MEDIUM"
           /\ "warnings" \in DOMAIN result[r].response

\* The warnings a response carries.
ResponseWarnings(response) ==
    IF "detailed_warnings" \in DOMAIN response
    THEN response.detailed_warnings
    ELSE <<>>

\* The number of warnings the attempts of request r themselves give rise to:
\* one for every attempt before the last, and one for a record without id.
OwnWarnings(r) ==
    (Len(outcomes[r]) - 1)
      + (IF LastOutcome(r).kind = "document" /\ AdId(LastOutcome(r).adid) = ""
         THEN 1 ELSE 0)

\* C13: with several requests interleaved, the response of a request holds the
\* warnings of its own attempts and no others, each about its own listing id,
\* and its metrics are those of its own attempts, each for its own url.
C13_Isolation ==
    \A r \in Requests :
        result[r].kind = "response" =>
            /\ Len(ResponseWarnings(result[r].response)) = OwnWarnings(r)
            /\ \A i \in 1..Len(ResponseWarnings(result[r].response)) :
                  /\ ResponseWarnings(result[r].response)[i].affected_items
                        = << listing_id[r] >>
                  /\ ResponseWarnings(result[r].response)[i].message.listing_id
                        = listing_id[r]
            /\ result[r].response.performance_metrics.total_attempts
                  = Len(metrics[r])
            /\ Len(metrics[r]) <= attempts[r]
            /\ \A i \in 1..Len(metrics[r]) : metrics[r][i].url = Url(listing_id[r])
            /\ result[r].response.performance_metrics.success_rate
                  = (IF IsSuccessResponse(r) THEN 10000 ELSE 0)

\* Two requests for different listings have both returned a response, one with
\* a warning and one without.
C13_Witness ==
    \E r, q \in Requests :
        /\ r # q
        /\ listing_id[r] # listing_id[q]
        /\ result[r].kind = "response"
        /\ result[q].kind = "response"
        /\ ResponseWarnings(result[r].response) # <<>>
        /\ ResponseWarnings(result[q].response) = <<>>

\* C14 has no formula.  A call adds at most one warning, to a manager that is
\* empty until then, and makes no attempt after it: no state holds a warning
\* that a later step of the call could remove or reorder, so that "the number
\* of warnings never decreases" holds of every step whatever the step does.

\* C15: a failure response reports the structured error of the last attempt
\* made, classified from what that attempt met, and its data is None.
C15_LastErrorReported ==
    \A r \in Requests :
        IsFailureResponse(r) =>
            LET se == HandleException(GetInserateDetailsHttpx(LastOutcome(r)).exc,
                                      Len(outcomes[r]) - 1)
            IN  /\ last_structured_error[r] = se
                /\ result[r].response.error = se.message
                /\ result[r].response.error_category = se.category
                /\ result[r].response.error_severity = se.severity
                /\ result[r].response.recovery_suggestions = se.recovery_suggestions
                /\ result[r].response.data = None

\* A failure response for a 404 reports HTTP_STATUS and MEDIUM.
C15_Witness ==
    \E r \in Requests :
        /\ IsFailureResponse(r)
        /\ MetStatus(r, 1, 404)
        /\ result[r].response.error_severity = "MEDIUM"
        /\ result[r].response.error_category = "HTTP_STATUS"

\* C16: for every retry_count >= 0 the raise after the loop is never reached:
\* the for statement never runs out of iterations, every attempt either returns
\* a response or is left by an exception that passes the raise by.
C16_FallbackNotReached ==
    \A r \in Requests :
        PipelineEnded(r) =>
            /\ result[r] # Raised(Fallback(NoError))
            /\ result[r] # Raised(Fallback(last_structured_error[r]))
            /\ attempts[r] >= 1
            /\ result[r].kind = "exception" => result[r].exc.type # "HTTPException"

\* The last permitted attempt has failed and the call returned a failure
\* response.
C16_Witness ==
    \E r \in Requests :
        /\ retry_count[r] = 0
        /\ attempts[r] = 1
        /\ IsFailureResponse(r)

\* C17: an attempt whose fetch is cancelled while it is in flight is still
\* recorded as a failed PageMetrics in the tracker of its request.
C17_CancelledAttemptRecorded ==
    \A r \in Requests :
        (Cancelled(r) /\ CancelledInFlight(r)) =>
            /\ Len(metrics[r]) = attempts[r]
            /\ ~ metrics[r][Len(metrics[r])].success

\* C18: a retry warning is raised only for an attempt before the last permitted
\* one and only for a retryable failure; a failure of the last permitted attempt,
\* or one that is not retryable, ends the call, unless it is cancelled, with the
\* failure response at once.
C18_NoRetryAfterLast ==
    \A r \in Requests :
        /\ \A i \in 1..Len(warnings[r]) :
              IsRetryWarning(warnings[r][i]) =>
                  /\ warnings[r][i].message.attempt <= retry_count[r]
                  /\ warnings[r][i].message.attempt <= Len(outcomes[r])
                  /\ Classify(GetInserateDetailsHttpx(
                         outcomes[r][warnings[r][i].message.attempt]).exc).retryable
        /\ ( /\ PipelineEnded(r)
             /\ ~ Cancelled(r)
             /\ outcomes[r] # <<>>
             /\ LastOutcome(r).kind # "document"
             /\ \/ Len(outcomes[r]) - 1 = retry_count[r]
                \/ ~ last_structured_error[r].retryable )
           => /\ IsFailureResponse(r)
              /\ \A i \in 1..Len(warnings[r]) :
                    ~ ( /\ IsRetryWarning(warnings[r][i])
                        /\ warnings[r][i].message.attempt = Len(outcomes[r]) )

\* A retryable failure (503) of the only permitted attempt has ended the call
\* with a failure response and without a warning.
C18_Witness ==
    \E r \in Requests :
        /\ retry_count[r] = 0
        /\ MetStatus(r, 1, 503)
        /\ IsFailureResponse(r)
        /\ warnings[r] = <<>>

\* C19: the call makes one client; it is open while an attempt is in flight and
\* closed once the client block is left and when the call has ended, by a
\* response or by an exception.
C19_ClientLifetime ==
    \A r \in Requests :
        /\ pc[r] = "fetching" => client[r] = "open"
        /\ pc[r] = "closing" => client[r] = "closed"
        /\ PipelineEnded(r) => client[r] = "closed"
        /\ opened[r] <= 1
        /\ attempts[r] >= 1 => opened[r] = 1

\* A call has been left by the exception of the retry branch, its one client
\* closed.
C19_Witness ==
    \E r \in Requests :
        /\ result[r].kind = "exception"
        /\ result[r].exc.type = "AttributeError"
        /\ client[r] = "closed"
        /\ opened[r] = 1

\* C20: a normal return of get_inserat has success = true and the data and
\* time_taken of a successful pipeline response; a pipeline response without
\* success or an exception raised in the pipeline ends in an HTTPException, and
\* a cancellation in the CancelledError itself, none in a normal return.
C20_NormalReturnOnlyOnSuccess ==
    \A r \in Requests :
        (pc[r] = "responded" /\ caller[r] = "router" /\ PipelineEnded(r)) =>
            /\ endpoint[r].kind = "response" =>
                  /\ IsSuccessResponse(r)
                  /\ endpoint[r].response.success
                  /\ endpoint[r].response.data = result[r].response.data
                  /\ endpoint[r].response.time_taken = result[r].response.time_taken
            /\ ~ IsSuccessResponse(r) => endpoint[r].kind = "exception"
            /\ ( \/ IsFailureResponse(r)
                 \/ /\ result[r].kind = "exception"
                    /\ result[r].exc.type # "CancelledError" )
               => /\ endpoint[r].kind = "exception"
                  /\ endpoint[r].exc.type = "HTTPException"
                  /\ endpoint[r].exc.status_code = 500

\* The endpoint has returned the record of a successful pipeline response.
C20_Witness ==
    \E r \in Requests :
        /\ pc[r] = "responded"
        /\ endpoint[r].kind = "response"
        /\ endpoint[r].response.success
        /\ endpoint[r].response.data.id = "7"
        /\ endpoint[r].response.time_taken >= 1

====
